---- MODULE Spec2Model ----
(***************************************************************************)
(* Model of the event query and deduplication tools of                     *)
(* projects/unit3/build-mcp-server/starter/server.py:                      *)
(*   get_recent_actions_events, get_workflow_status, get_unseen_events,    *)
(*   get_new_failures, mark_events_as_seen                                 *)
(* over the two JSON documents github_events.json (EVENTS_FILE) and        *)
(* events_state.json (EVENTS_STATE_FILE), and of suggest_team_notification *)
(* over team_config.json (TEAM_CONFIG_FILE).                               *)
(*                                                                         *)
(* Time is counted in whole hours of 2024-01-01 (UTC).  A tool's JSON      *)
(* result is modelled as the value that json.dumps serialises; a call that *)
(* lets a Python exception escape is modelled as a result of kind          *)
(* "exception" carrying the exception type.                                *)
(***************************************************************************)
EXTENDS Integers, Sequences, FiniteSets, TLC

VARIABLES
    eventsFile,   \* EVENTS_FILE: [exists, events]
    stateFile,    \* EVENTS_STATE_FILE: [exists, seen_event_ids, last_processed, manually_marked_count]
    now,          \* the wall clock, datetime.now(timezone.utc), in hours
    op,           \* the last tool call (or webhook delivery) that completed
    result,       \* what that call returned
    calls,        \* parity of the number of completed calls
    pc,           \* per process: where a call in progress stands (SpecConc)
    loc,          \* per process: the locals of the call in progress (SpecConc)
    teamConfig    \* TEAM_CONFIG_FILE: [exists, doc]

vars == <<eventsFile, stateFile, now, op, result, calls, pc, loc, teamConfig>>

-----------------------------------------------------------------------------
(* Bounds of the model *)

MaxEvents == 2        \* events in EVENTS_FILE under Spec and SpecConc
MaxQueryEvents == 3   \* events in EVENTS_FILE under SpecQuery
MaxTime == 2          \* the clock runs over 0..MaxTime
MaxIds == 2           \* length of the event_ids list given to mark_events_as_seen
MaxLimit == 3         \* limit of get_recent_actions_events runs over -1..MaxLimit
MaxSince == 2         \* since_hours of get_new_failures runs over 0..MaxSince

-----------------------------------------------------------------------------
(* Python values *)

Null == "<None>"         \* Python None / JSON null
Missing == "<missing>"   \* a key that the JSON object does not have
NoError == "<no error>"

HourStr == <<"00", "01", "02", "03", "04", "05", "06", "07", "08", "09">>

\* The timestamp strings the webhook receiver stores, e.g. 2024-01-01T01:00:00Z.
Stamp(h) == "2024-01-01T" \o HourStr[h + 1] \o ":00:00Z"
\* A well-formed ISO-8601 string without a UTC offset.
NaiveStamp(h) == "2024-01-01T" \o HourStr[h + 1] \o ":00:00"
Garbage == "not-a-timestamp"

Hours == 0..MaxTime

\* datetime.isoformat() of an aware UTC datetime.
IsoFormat(h) == "2024-01-01T" \o HourStr[h + 1] \o ":00:00+00:00"

\* datetime.fromisoformat(s.replace('Z', '+00:00')): the parsed datetime, or the
\* ValueError it raises.
ParseIso(s) ==
    IF \E h \in Hours : s = Stamp(h)
    THEN [ok |-> TRUE, aware |-> TRUE, hour |-> CHOOSE h \in Hours : s = Stamp(h)]
    ELSE IF \E h \in Hours : s = NaiveStamp(h)
    THEN [ok |-> TRUE, aware |-> FALSE, hour |-> CHOOSE h \in Hours : s = NaiveStamp(h)]
    ELSE [ok |-> FALSE, aware |-> FALSE, hour |-> 0]

\* Position of a timestamp string in the lexicographic order of Python's str
\* comparison: "...T00:00:00Z" < "...T01:00:00" < "...T01:00:00Z" < ... < "not-a-timestamp",
\* a string sorting before the string it is a proper prefix of, digits before letters.
LexKey(s) ==
    IF \E h \in Hours : s = Stamp(h)
    THEN 2 * (CHOOSE h \in Hours : s = Stamp(h)) + 1
    ELSE IF \E h \in Hours : s = NaiveStamp(h)
    THEN 2 * (CHOOSE h \in Hours : s = NaiveStamp(h))
    ELSE 2 * MaxTime + 2

\* Mutant of StrGreater: a >= b.
StrGreater_OrEqual(a, b) == LexKey(a) >= LexKey(b)

\* a > b on two str values.
StrGreater(a, b) == LexKey(a) > LexKey(b)

-----------------------------------------------------------------------------
(* Event records *)

Run(name, conclusion, run_number, updated_at) ==
    [name |-> name, status |-> "completed", conclusion |-> conclusion,
     run_number |-> run_number, updated_at |-> updated_at, html_url |-> "x"]

\* workflow_run is <<>> when the event has none (None), else <<run>>.
Event(timestamp, event_type, repository, sender, workflow_run) ==
    [timestamp |-> timestamp, event_type |-> event_type, repository |-> repository,
     sender |-> sender, workflow_run |-> workflow_run]

HasRun(e) == e.workflow_run # <<>>
RunOf(e) == e.workflow_run[1]

\* Events delivered under Spec and SpecConc: the first two are distinct events
\* with the same timestamp, type and repository.
SeenPool ==
    { Event(Stamp(1), "push", "a/b", "u1", <<>>),
      Event(Stamp(1), "push", "a/b", "u2", <<>>),
      Event(Stamp(2), "workflow_run", "c/d", "u1",
            <<Run("CI", "failure", 1, Stamp(2))>>) }

\* Events in the store under SpecQuery.
QueryPool ==
    { Event(Stamp(1), "workflow_run", "a/b", "u1", <<Run("CI", "failure", 1, Stamp(1))>>),
      Event(Stamp(2), "workflow_run", "a/b", "u2", <<Run("CI", "success", 2, Stamp(2))>>),
      Event(Stamp(0), "workflow_run", "a/b", "u1", <<Run("Deploy", "failure", 3, Stamp(1))>>),
      Event(Stamp(2), "workflow_run", "c/d", "u1", <<Run("CI", "failure", 4, Garbage)>>),
      Event(Garbage, "workflow_run", "c/d", "u2", <<Run("CI", "failure", 5, Stamp(1))>>),
      Event(Stamp(1), "workflow_run", "a/b", "u2", <<Run("CI", "failure", 6, Null)>>),
      Event(Stamp(1), "workflow_run", "c/d", "u1", <<Run("CI", Null, 7, Missing)>>),
      Event(Stamp(1), "push", "a/b", "u1", <<>>) }

SeqsUpTo(S, n) == UNION { [1..k -> S] : k \in 0..n }

-----------------------------------------------------------------------------
(* The two documents *)

NoEventsFile == [exists |-> FALSE, events |-> <<>>]
EventsDoc(events) == [exists |-> TRUE, events |-> events]

NoStateFile ==
    [exists |-> FALSE, seen_event_ids |-> {}, last_processed |-> Null,
     manually_marked_count |-> <<>>]

\* The state dict get_unseen_events dumps: it has no manually_marked_count key
\* (<<>>), whatever the document held before.
UnseenStateDoc(seen_events, t) ==
    [exists |-> TRUE, seen_event_ids |-> seen_events, last_processed |-> IsoFormat(t),
     manually_marked_count |-> <<>>]

\* The state dict mark_events_as_seen dumps.
MarkStateDoc(seen_events, t, event_ids) ==
    [exists |-> TRUE, seen_event_ids |-> seen_events, last_processed |-> IsoFormat(t),
     manually_marked_count |-> <<Len(event_ids)>>]

LoadSeenOf(sf) == IF sf.exists THEN sf.seen_event_ids ELSE {}

\* Mutant of Overwrite: the dump keeps the identities the document holds at the
\* time of the write, as a locked read-modify-write would.
Overwrite_Merging(sf, doc) ==
    [doc EXCEPT !.seen_event_ids = @ \cup LoadSeenOf(sf)]

\* open(EVENTS_STATE_FILE, 'w') and json.dump(state, f): the document becomes the
\* dumped dict, whatever it held.
Overwrite(sf, doc) == doc

\* set(state.get("seen_event_ids", [])) when the file exists, else set().
LoadSeen(sf) == LoadSeenOf(sf)

-----------------------------------------------------------------------------
(* get_unseen_events *)

Range(s) == { s[i] : i \in DOMAIN s }

\* f"{event['timestamp']}:{event['event_type']}:{event['repository']}"
EventId(e) == e.timestamp \o ":" \o e.event_type \o ":" \o e.repository

WithId(e) == [event |-> e, event_id |-> EventId(e)]

\* Mutant of UnseenEvents: the membership test is dropped and every event is
\* returned.
UnseenEvents_All(events, seen_events) == [i \in DOMAIN events |-> WithId(events[i])]

RECURSIVE UnseenEvents(_, _)
\* The loop over events: those whose identity is not in seen_events, each with
\* its event_id; seen_events is not updated inside the loop.
UnseenEvents(events, seen_events) ==
    IF events = <<>> THEN <<>>
    ELSE LET rest == UnseenEvents(Tail(events), seen_events)
         IN  IF EventId(Head(events)) \notin seen_events
             THEN <<WithId(Head(events))>> \o rest
             ELSE rest

NewSeenIds(unseen_events) == { unseen_events[i].event_id : i \in DOMAIN unseen_events }

\* Mutant of UnseenShouldWrite: the flag is not consulted.
UnseenShouldWrite_IgnoresFlag(mark_as_seen, unseen_events) ==
    unseen_events # <<>>

\* Mutant of UnseenShouldWrite: the document is dumped whenever marking is asked
\* for, also when nothing is unseen.
UnseenShouldWrite_WhenAsked(mark_as_seen, unseen_events) == mark_as_seen

\* if mark_as_seen and unseen_events:
UnseenShouldWrite(mark_as_seen, unseen_events) ==
    mark_as_seen /\ unseen_events # <<>>

\* Mutant of UnseenMerged: the update is forgotten and the old set is dumped.
UnseenMerged_NoUpdate(seen_events, unseen_events) == seen_events

\* Mutant of UnseenMerged: new_seen_ids is dumped in place of the union.
UnseenMerged_OnlyNew(seen_events, unseen_events) == NewSeenIds(unseen_events)

\* seen_events.update(new_seen_ids)
UnseenMerged(seen_events, unseen_events) == seen_events \cup NewSeenIds(unseen_events)

MessageResult == [kind |-> "message", message |-> "No GitHub Actions events received yet"]

UnseenResult(unseen_events, mark_as_seen) ==
    [kind |-> "unseen", unseen_count |-> Len(unseen_events), events |-> unseen_events,
     marked_as_seen |-> mark_as_seen]

\* Mutant of UnseenShortCircuits: an empty list short-circuits too, as in
\* get_workflow_status.
UnseenShortCircuits_AlsoEmpty(ef) == ~ef.exists \/ ef.events = <<>>

\* The early return: only a missing file short-circuits; a present file is loaded
\* and looped over even when its list is empty.
UnseenShortCircuits(ef) == ~ef.exists

\* The state document after get_unseen_events(mark_as_seen) returns.
UnseenStateAfter(ef, sf, t, mark_as_seen) ==
    LET unseen_events == UnseenEvents(ef.events, LoadSeen(sf))
    IN  IF ~UnseenShortCircuits(ef) /\ UnseenShouldWrite(mark_as_seen, unseen_events)
        THEN Overwrite(sf, UnseenStateDoc(UnseenMerged(LoadSeen(sf), unseen_events), t))
        ELSE sf

\* What get_unseen_events(mark_as_seen) returns.
UnseenReturn(ef, sf, mark_as_seen) ==
    IF UnseenShortCircuits(ef) THEN MessageResult
    ELSE UnseenResult(UnseenEvents(ef.events, LoadSeen(sf)), mark_as_seen)

-----------------------------------------------------------------------------
(* mark_events_as_seen *)

\* event_ids is NoList for None, else a sequence of identity strings.
NoList == [given |-> FALSE, ids |-> <<>>]
IdList(ids) == [given |-> TRUE, ids |-> ids]

\* Mutant of MarkRejects: "if event_ids is None".
MarkRejects_OnlyNone(event_ids) == ~event_ids.given

\* if not event_ids:
MarkRejects(event_ids) == ~event_ids.given \/ event_ids.ids = <<>>

ErrorResult == [kind |-> "error", error |-> "No event IDs provided"]

\* seen_events.update(event_ids)
MarkMerged(seen_events, ids) == seen_events \cup Range(ids)

MarkStateAfter(sf, t, event_ids) ==
    IF MarkRejects(event_ids) THEN sf
    ELSE Overwrite(sf, MarkStateDoc(MarkMerged(LoadSeen(sf), event_ids.ids), t, event_ids.ids))

\* Mutant of MarkReturn: total_seen_events adds len(event_ids) to the number
\* stored before, counting repeated and already seen identities again.
MarkReturn_CountsList(sf, event_ids) ==
    IF MarkRejects(event_ids) THEN ErrorResult
    ELSE [kind |-> "marked", marked_as_seen |-> Len(event_ids.ids),
          total_seen_events |-> Cardinality(LoadSeen(sf)) + Len(event_ids.ids),
          event_ids_marked |-> event_ids.ids]

MarkReturn(sf, event_ids) ==
    IF MarkRejects(event_ids) THEN ErrorResult
    ELSE [kind |-> "marked", marked_as_seen |-> Len(event_ids.ids),
          total_seen_events |-> Cardinality(MarkMerged(LoadSeen(sf), event_ids.ids)),
          event_ids_marked |-> event_ids.ids]

-----------------------------------------------------------------------------
(* get_recent_actions_events *)

Min(a, b) == IF a <= b THEN a ELSE b
Max(a, b) == IF a >= b THEN a ELSE b

\* seq[start:] as Python slices: a negative start counts from the end, and the
\* start is clamped into 0..len(seq).
SliceFrom(seq, start) ==
    LET n == Len(seq)
        from == IF start < 0 THEN Max(n + start, 0) ELSE Min(start, n)
    IN  SubSeq(seq, from + 1, n)

\* Mutant of RecentSlice: events[:limit].
RecentSlice_Head(events, limit) == SubSeq(events, 1, Min(Max(limit, 0), Len(events)))

\* events[-limit:]
RecentSlice(events, limit) == SliceFrom(events, 0 - limit)

\* What get_recent_actions_events(limit) returns: a JSON list.
RecentReturn(ef, limit) ==
    IF ~ef.exists THEN [kind |-> "list", items |-> <<>>]
    ELSE [kind |-> "list", items |-> RecentSlice(ef.events, limit)]

-----------------------------------------------------------------------------
(* get_workflow_status *)

RECURSIVE WithRun(_)
\* [e for e in events if e.get("workflow_run") is not None]
WithRun(events) ==
    IF events = <<>> THEN <<>>
    ELSE IF HasRun(Head(events))
         THEN <<Head(events)>> \o WithRun(Tail(events))
         ELSE WithRun(Tail(events))

\* conclusion is Null when no filter is given; "if conclusion:" holds for a
\* non-empty string only.
FilterGiven(conclusion) == conclusion # Null /\ conclusion # ""

\* e["workflow_run"].get("conclusion") == conclusion
ConclusionMatches(e, conclusion) == RunOf(e).conclusion = conclusion

RECURSIVE WithConclusion(_, _)
\* [e for e in workflow_events if e["workflow_run"].get("conclusion") == conclusion]
WithConclusion(events, conclusion) ==
    IF events = <<>> THEN <<>>
    ELSE IF ConclusionMatches(Head(events), conclusion)
         THEN <<Head(events)>> \o WithConclusion(Tail(events), conclusion)
         ELSE WithConclusion(Tail(events), conclusion)

\* Mutant of StatusSelected: the conclusion filter is not applied.
StatusSelected_NoFilter(events, conclusion) == WithRun(events)

\* workflow_events after both filters.
StatusSelected(events, conclusion) ==
    IF FilterGiven(conclusion)
    THEN WithConclusion(WithRun(events), conclusion)
    ELSE WithRun(events)

\* time_since_run for an updated_at read from the run.
TimeSince(updated_at, t) ==
    IF updated_at = Null \/ updated_at = ""
    THEN [error |-> "No timestamp available"]
    ELSE LET parsed == ParseIso(updated_at)
         IN  IF ~parsed.ok \/ ~parsed.aware
             \* ValueError from fromisoformat, or TypeError from subtracting a
             \* naive datetime from an aware one: both caught by the bare except
             THEN [error |-> "Could not parse timestamp"]
             ELSE LET total == (t - parsed.hour) * 3600
                      seconds == total % 86400
                  IN  [days |-> (total - seconds) \div 86400,
                       hours |-> seconds \div 3600,
                       minutes |-> (seconds % 3600) \div 60,
                       total_seconds |-> total]

WorkflowInfo(run, t) ==
    [name |-> run.name, status |-> run.status, conclusion |-> run.conclusion,
     run_number |-> run.run_number, updated_at |-> run.updated_at,
     time_since_run |-> TimeSince(run.updated_at, t), html_url |-> run.html_url]

\* Index of the repository's entry in the repositories dict (kept in insertion
\* order), 0 when it has none.
RepoIndex(repos, repo) ==
    IF \E i \in DOMAIN repos : repos[i].repository = repo
    THEN CHOOSE i \in DOMAIN repos : repos[i].repository = repo
    ELSE 0

\* updated_at > latest_run["updated_at"]: a TypeError when either is None.
CompareRaises(a, b) == a = Null \/ b = Null

\* One pass of the loop body over an event; acc is [repos, error].
StatusStep(acc, event, t) ==
    IF acc.error # NoError THEN acc
    ELSE
    LET run == RunOf(event)
        repo == event.repository
        known == RepoIndex(acc.repos, repo)
        repos1 == IF known = 0
                  THEN Append(acc.repos,
                              [repository |-> repo, workflows |-> <<>>,
                               latest_run |-> <<>>, total_runs |-> 0])
                  ELSE acc.repos
        i == RepoIndex(repos1, repo)
        entry == repos1[i]
        info == WorkflowInfo(run, t)
        w == IF \E k \in DOMAIN entry.workflows : entry.workflows[k].name = run.name
             THEN entry.workflows
             ELSE Append(entry.workflows, [name |-> run.name, runs |-> <<>>])
        wi == CHOOSE k \in DOMAIN w : w[k].name = run.name
        w2 == [w EXCEPT ![wi].runs = Append(@, info)]
    IN  IF run.updated_at = Missing
        THEN [repos |-> repos1, error |-> "KeyError"]          \* run["updated_at"]
        ELSE IF entry.latest_run # <<>>
                /\ CompareRaises(run.updated_at, entry.latest_run[1].updated_at)
        THEN [repos |-> repos1, error |-> "TypeError"]
        ELSE LET newer == \/ entry.latest_run = <<>>
                          \/ StrGreater(run.updated_at, entry.latest_run[1].updated_at)
             IN  [repos |-> [repos1 EXCEPT ![i] =
                                [repository |-> repo,
                                 workflows |-> w2,
                                 latest_run |-> IF newer THEN <<info>> ELSE entry.latest_run,
                                 total_runs |-> entry.total_runs + 1]],
                  error |-> NoError]

RECURSIVE StatusLoop(_, _, _)
\* for event in workflow_events: ...
StatusLoop(acc, events, t) ==
    IF events = <<>> THEN acc
    ELSE StatusLoop(StatusStep(acc, Head(events), t), Tail(events), t)

RECURSIVE InsertDesc(_, _)
\* Insert info into a list sorted by updated_at descending, after the entries
\* with an equal key.
InsertDesc(sorted, info) ==
    IF sorted = <<>> THEN <<info>>
    ELSE IF StrGreater(info.updated_at, Head(sorted).updated_at)
         THEN <<info>> \o sorted
         ELSE <<Head(sorted)>> \o InsertDesc(Tail(sorted), info)

RECURSIVE SortRunsDesc(_)
\* list.sort(key=updated_at, reverse=True): stable, equal keys keep their order.
SortRunsDesc(runs) ==
    IF runs = <<>> THEN <<>>
    ELSE InsertDesc(SortRunsDesc(SubSeq(runs, 1, Len(runs) - 1)), runs[Len(runs)])

\* Sorting compares keys as soon as the list has two entries: None raises.
SortRaises(runs) ==
    Len(runs) >= 2 /\ \E k \in DOMAIN runs : runs[k].updated_at = Null

SortedRepo(entry) ==
    [entry EXCEPT !.workflows =
        [k \in DOMAIN entry.workflows |->
            [name |-> entry.workflows[k].name,
             runs |-> SortRunsDesc(entry.workflows[k].runs)]]]

ExceptionResult(type) == [kind |-> "exception", type |-> type]

\* What get_workflow_status(conclusion) returns, or the exception that escapes it.
StatusReturn(ef, t, conclusion) ==
    IF ~ef.exists \/ ef.events = <<>> THEN MessageResult
    ELSE
    LET looped == StatusLoop([repos |-> <<>>, error |-> NoError],
                             StatusSelected(ef.events, conclusion), t)
        repos == looped.repos
    IN  IF looped.error # NoError THEN ExceptionResult(looped.error)
        ELSE IF \E i \in DOMAIN repos : \E k \in DOMAIN repos[i].workflows :
                    SortRaises(repos[i].workflows[k].runs)
        THEN ExceptionResult("TypeError")
        ELSE [kind |-> "status",
              total_repositories |-> Len(repos),
              filter_applied |-> IF FilterGiven(conclusion)
                                 THEN "conclusion=" \o conclusion ELSE "none",
              generated_at |-> IsoFormat(t),
              repositories |-> [i \in DOMAIN repos |-> SortedRepo(repos[i])]]

-----------------------------------------------------------------------------
(* get_new_failures *)

\* event.get("workflow_run") and event["workflow_run"].get("conclusion") == "failure"
IsFailure(e) == HasRun(e) /\ RunOf(e).conclusion = "failure"

\* The outcome of the timestamp test of a failure event: "ValueError" when
\* fromisoformat cannot parse it, "TypeError" when the parsed datetime carries
\* no offset and is compared with the aware cutoff, else whether it is in the window.
WindowTest(timestamp, cutoff) ==
    LET parsed == ParseIso(timestamp)
    IN  IF ~parsed.ok THEN "ValueError"
        ELSE IF ~parsed.aware THEN "TypeError"
        ELSE IF parsed.hour >= cutoff THEN "in" ELSE "out"

RECURSIVE FailuresLoop(_, _, _)
\* The first loop; acc is [failures, error].
FailuresLoop(acc, events, cutoff) ==
    IF events = <<>> \/ acc.error # NoError THEN acc
    ELSE LET e == Head(events)
             test == IF IsFailure(e) THEN WindowTest(e.timestamp, cutoff) ELSE "out"
         IN  FailuresLoop(
                 IF test = "in" THEN [acc EXCEPT !.failures = Append(@, e)]
                 ELSE IF test = "out" THEN acc
                 ELSE [acc EXCEPT !.error = test],
                 Tail(events), cutoff)

\* f"{repo}:{workflow_name}"
GroupKey(e) == e.repository \o ":" \o RunOf(e).name

Occurrence(e) ==
    [timestamp |-> e.timestamp, run_number |-> RunOf(e).run_number,
     html_url |-> RunOf(e).html_url, sender |-> e.sender]

\* Mutant of GroupStep: the failure that opens a group is listed but not counted.
GroupStep_OpeningNotCounted(groups, e) ==
    LET known == \E i \in DOMAIN groups : groups[i].key = GroupKey(e)
    IN  IF known
        THEN LET i == CHOOSE k \in DOMAIN groups : groups[k].key = GroupKey(e)
             IN  [groups EXCEPT ![i] =
                     [@ EXCEPT !.failure_count = @ + 1,
                               !.failures = Append(@, Occurrence(e)),
                               !.latest_failure = IF StrGreater(e.timestamp, @)
                                                  THEN e.timestamp ELSE @]]
        ELSE Append(groups,
                    [key |-> GroupKey(e), repository |-> e.repository,
                     workflow_name |-> RunOf(e).name, failure_count |-> 0,
                     first_failure |-> e.timestamp,
                     latest_failure |-> e.timestamp, failures |-> <<Occurrence(e)>>])

\* One pass of the grouping loop; groups is the failure_groups dict in insertion order.
GroupStep(groups, e) ==
    LET known == \E i \in DOMAIN groups : groups[i].key = GroupKey(e)
        groups1 == IF known THEN groups
                   ELSE Append(groups,
                               [key |-> GroupKey(e), repository |-> e.repository,
                                workflow_name |-> RunOf(e).name, failure_count |-> 0,
                                first_failure |-> e.timestamp,
                                latest_failure |-> e.timestamp, failures |-> <<>>])
        i == CHOOSE k \in DOMAIN groups1 : groups1[k].key = GroupKey(e)
        g == groups1[i]
    IN  [groups1 EXCEPT ![i] =
            [g EXCEPT !.failure_count = @ + 1,
                      !.failures = Append(@, Occurrence(e)),
                      !.latest_failure = IF StrGreater(e.timestamp, @)
                                         THEN e.timestamp ELSE @]]

RECURSIVE GroupLoop(_, _)
GroupLoop(groups, failures) ==
    IF failures = <<>> THEN groups
    ELSE GroupLoop(GroupStep(groups, Head(failures)), Tail(failures))

RECURSIVE InsertByCount_TiesFirst(_, _)
\* Mutant of InsertByCount: a group goes before the groups with an equal count
\* (an unstable sort).
InsertByCount_TiesFirst(sorted, g) ==
    IF sorted = <<>> THEN <<g>>
    ELSE IF g.failure_count >= Head(sorted).failure_count
         THEN <<g>> \o sorted
         ELSE <<Head(sorted)>> \o InsertByCount_TiesFirst(Tail(sorted), g)

RECURSIVE InsertByCount(_, _)
\* Insert g into a list sorted by failure_count descending, after the groups
\* with an equal count.
InsertByCount(sorted, g) ==
    IF sorted = <<>> THEN <<g>>
    ELSE IF g.failure_count > Head(sorted).failure_count
         THEN <<g>> \o sorted
         ELSE <<Head(sorted)>> \o InsertByCount(Tail(sorted), g)

RECURSIVE SortGroups(_)
\* sorted(failure_groups.values(), key=failure_count, reverse=True): stable.
SortGroups(groups) ==
    IF groups = <<>> THEN <<>>
    ELSE InsertByCount(SortGroups(SubSeq(groups, 1, Len(groups) - 1)), groups[Len(groups)])

\* What get_new_failures(since_hours) returns, or the exception that escapes it.
FailuresReturn(ef, t, since_hours) ==
    IF ~ef.exists THEN MessageResult
    ELSE
    LET looped == FailuresLoop([failures |-> <<>>, error |-> NoError],
                               ef.events, t - since_hours)
        sorted_failures == SortGroups(GroupLoop(<<>>, looped.failures))
    IN  IF looped.error # NoError THEN ExceptionResult(looped.error)
        ELSE [kind |-> "failures",
              time_window_hours |-> since_hours,
              total_failure_groups |-> Len(sorted_failures),
              total_individual_failures |-> Len(looped.failures),
              failure_groups |-> sorted_failures]

-----------------------------------------------------------------------------
(* suggest_team_notification *)

\* A JSON object is a function from its keys; {} is the function without keys.
EmptyMap == [k \in {} |-> <<>>]

NoTeamConfig == [exists |-> FALSE, doc |-> EmptyMap]
TeamConfigDoc(doc) == [exists |-> TRUE, doc |-> doc]

\* team_config = {} unless the file exists, then json.load(f).
LoadTeamConfig(tc) == IF tc.exists THEN tc.doc ELSE EmptyMap

DefaultExpertise ==
    [frontend |-> <<"frontend-lead">>, backend |-> <<"backend-lead">>,
     deployment |-> <<"devops-lead">>, security |-> <<"security-lead">>,
     general |-> <<"tech-lead">>]

DefaultConfig ==
    [repositories |-> EmptyMap,
     expertise |-> DefaultExpertise,
     on_call |-> [primary |-> "on-call-primary", secondary |-> "on-call-secondary"]]

\* Mutant of MergeConfig: the maps under a key that both documents have are
\* merged key by key.
MergeConfig_Deep(default_config, team_config) ==
    [k \in DOMAIN default_config \cup DOMAIN team_config |->
        IF k \in DOMAIN team_config /\ k \in DOMAIN default_config
        THEN team_config[k] @@ default_config[k]
        ELSE IF k \in DOMAIN team_config THEN team_config[k] ELSE default_config[k]]

\* {**default_config, **team_config}: for each top-level key the team's value
\* if it has the key, else the default's.
MergeConfig(default_config, team_config) ==
    [k \in DOMAIN default_config \cup DOMAIN team_config |->
        IF k \in DOMAIN team_config THEN team_config[k] ELSE default_config[k]]

\* dict.get(key, {})
GetMap(d, key) == IF key \in DOMAIN d THEN d[key] ELSE EmptyMap

\* dict.get(key) of a string value, "" standing for an absent or empty one.
GetStr(d, key) == IF key \in DOMAIN d THEN d[key] ELSE ""

Suggestion(type, person, reason) == [type |-> type, person |-> person, reason |-> reason]

\* 1. repository-specific owners
OwnerSuggestions(config, repository) ==
    LET repositories == GetMap(config, "repositories")
    IN  IF repository \in DOMAIN repositories
        THEN [i \in DOMAIN repositories[repository] |->
                 Suggestion("repository_owner", repositories[repository][i],
                            "Repository owner for " \o repository)]
        ELSE <<>>

\* 2. expertise-based routing
ExpertSuggestions(config, failure_type) ==
    LET expertise == GetMap(config, "expertise")
    IN  IF failure_type \in DOMAIN expertise
        THEN [i \in DOMAIN expertise[failure_type] |->
                 Suggestion("expertise", expertise[failure_type][i],
                            "Expert in " \o failure_type \o " issues")]
        ELSE <<>>

\* 3. on-call rotation
OnCallSuggestions(config) ==
    LET on_call == GetMap(config, "on_call")
    IN  (IF GetStr(on_call, "primary") # ""
         THEN <<Suggestion("on_call_primary", on_call["primary"], "Primary on-call engineer")>>
         ELSE <<>>)
        \o
        (IF GetStr(on_call, "secondary") # ""
         THEN <<Suggestion("on_call_secondary", on_call["secondary"],
                           "Secondary on-call engineer")>>
         ELSE <<>>)

\* The workflow names a caller passes, and the words each contains once lowered.
WorkflowNames == { "CI", "Unit Tests", "Deploy", "Security Scan", "Test Deploy" }

\* word in workflow_name.lower()
LowerContains(workflow_name, word) ==
    <<workflow_name, word>> \in
        { <<"Unit Tests", "test">>, <<"Deploy", "deploy">>, <<"Security Scan", "security">>,
          <<"Test Deploy", "test">>, <<"Test Deploy", "deploy">> }

\* 4. workflow-specific suggestions: the if / elif / elif chain
WorkflowNotes(workflow_name) ==
    IF LowerContains(workflow_name, "test")
    THEN <<"QA team should be notified for test failures">>
    ELSE IF LowerContains(workflow_name, "deploy")
    THEN <<"DevOps team should be notified for deployment failures">>
    ELSE IF LowerContains(workflow_name, "security")
    THEN <<"Security team should be notified for security check failures">>
    ELSE <<>>

\* What suggest_team_notification returns.
SuggestReturn(tc, repository, workflow_name, failure_type) ==
    LET config == MergeConfig(DefaultConfig, LoadTeamConfig(tc))
    IN  [kind |-> "suggestion",
         repository |-> repository,
         workflow_name |-> workflow_name,
         failure_type |-> failure_type,
         notification_suggestions |->
             OwnerSuggestions(config, repository)
             \o ExpertSuggestions(config, failure_type)
             \o OnCallSuggestions(config),
         workflow_specific_notes |-> WorkflowNotes(workflow_name),
         config_file_location |-> "team_config.json",
         config_exists |-> tc.exists]

-----------------------------------------------------------------------------
(* The tools called one at a time: every call runs to completion *)

Procs == {1, 2}
Idle == [p \in Procs |-> "idle"]
NoLocals ==
    [call |-> "none", mark_as_seen |-> FALSE, event_ids |-> <<>>, events |-> <<>>,
     seen_events |-> {}, read_at |-> 0, wrote_at |-> 0, added |-> {}]

NoResult == [kind |-> "none"]

\* Identities a caller hands to mark_events_as_seen: one of a stored event, one
\* of no event at all.
MarkPool == { Stamp(1) \o ":push:a/b", "no-such-event" }

EventIdLists == { NoList } \cup { IdList(ids) : ids \in SeqsUpTo(MarkPool, MaxIds) }

Init ==
    /\ eventsFile \in { NoEventsFile, EventsDoc(<<>>) }
    /\ stateFile = NoStateFile
    /\ now = 0
    /\ op = [name |-> "init"]
    /\ result = NoResult
    /\ calls = 0
    /\ pc = Idle
    /\ loc = [p \in Procs |-> NoLocals]
    /\ teamConfig = NoTeamConfig

\* The webhook receiver appends one event to EVENTS_FILE, creating it if needed.
AppendEvent(e) ==
    /\ Len(eventsFile.events) < MaxEvents
    /\ eventsFile' = EventsDoc(Append(eventsFile.events, e))
    /\ op' = [name |-> "append"]
    /\ result' = NoResult
    /\ UNCHANGED <<stateFile, now, calls, pc, loc, teamConfig>>

\* Time passes.
Tick ==
    /\ now < MaxTime
    /\ now' = now + 1
    /\ UNCHANGED <<eventsFile, stateFile, op, result, calls, pc, loc, teamConfig>>

GetUnseenEvents(mark_as_seen) ==
    /\ stateFile' = UnseenStateAfter(eventsFile, stateFile, now, mark_as_seen)
    /\ result' = UnseenReturn(eventsFile, stateFile, mark_as_seen)
    /\ op' = [name |-> "unseen", mark_as_seen |-> mark_as_seen]
    /\ calls' = 1 - calls
    /\ UNCHANGED <<eventsFile, now, pc, loc, teamConfig>>

MarkEventsAsSeen(event_ids) ==
    /\ stateFile' = MarkStateAfter(stateFile, now, event_ids)
    /\ result' = MarkReturn(stateFile, event_ids)
    /\ op' = [name |-> "mark_seen", event_ids |-> event_ids]
    /\ calls' = 1 - calls
    /\ UNCHANGED <<eventsFile, now, pc, loc, teamConfig>>

Next ==
    \/ \E e \in SeenPool : AppendEvent(e)
    \/ Tick
    \/ \E mark_as_seen \in BOOLEAN : GetUnseenEvents(mark_as_seen)
    \/ \E event_ids \in EventIdLists : MarkEventsAsSeen(event_ids)

Spec == Init /\ [][Next]_vars

-----------------------------------------------------------------------------
(* Properties of the seen-state tools, checked under Spec *)

\* A tool call completed in this step.
CallStep == calls' # calls

\* C1: once get_unseen_events(mark_as_seen=True) has completed on a present
\* Event Store, and nothing but the passing of time happens in between, the next
\* get_unseen_events call (either flag) returns unseen_count 0 and no events.
C1_UnseenAfterMarkIsEmpty ==
    [][ ( /\ op.name = "unseen" /\ op.mark_as_seen
          /\ eventsFile.exists
          /\ CallStep /\ op'.name = "unseen" )
        => ( /\ result'.kind = "unseen"
             /\ result'.unseen_count = 0
             /\ result'.events = <<>> ) ]_vars

\* A second get_unseen_events call came back empty over a non-empty store whose
\* events (two of them sharing one identity) were marked by get_unseen_events.
C1_Witness ==
    /\ op.name = "unseen" /\ op.mark_as_seen
    /\ result.kind = "unseen" /\ result.unseen_count = 0
    /\ Len(eventsFile.events) = 2
    /\ stateFile.exists /\ stateFile.manually_marked_count = <<>>
    /\ Cardinality(stateFile.seen_event_ids) = 1

\* C2: over calls made one at a time the stored seen set only grows: every
\* identity stored before a step is stored after it, and the document, once
\* written, stays.
C2_SeenSetGrows ==
    [][ /\ LoadSeen(stateFile) \subseteq LoadSeen(stateFile')
        /\ stateFile.exists => stateFile'.exists ]_vars

\* get_unseen_events has written a document that keeps an identity which only
\* mark_events_as_seen can have added.
C2_Witness ==
    /\ stateFile.exists /\ stateFile.manually_marked_count = <<>>
    /\ "no-such-event" \in stateFile.seen_event_ids
    /\ Cardinality(stateFile.seen_event_ids) = 3

\* C4: get_unseen_events(mark_as_seen=False) changes neither document, and two
\* such calls in a row return the same result.
C4_UnseenFalseIsPure ==
    [][ ( CallStep /\ op'.name = "unseen" /\ ~op'.mark_as_seen )
        => ( /\ stateFile' = stateFile
             /\ eventsFile' = eventsFile
             /\ (op.name = "unseen" /\ ~op.mark_as_seen) => result' = result ) ]_vars

\* get_unseen_events(False) returned unseen events next to a written state
\* document that it left as it was.
C4_Witness ==
    /\ op.name = "unseen" /\ ~op.mark_as_seen
    /\ result.kind = "unseen" /\ result.unseen_count = 2
    /\ stateFile.exists /\ stateFile.seen_event_ids # {}
    /\ stateFile.last_processed # IsoFormat(now)

\* C5: mark_events_as_seen with an empty list or with None returns the error
\* result and leaves the state document as it was, absent if it was absent.
C5_MarkNothingIsError ==
    [][ ( /\ CallStep /\ op'.name = "mark_seen"
          /\ (~op'.event_ids.given \/ op'.event_ids.ids = <<>>) )
        => ( /\ result' = ErrorResult
             /\ stateFile' = stateFile ) ]_vars

\* mark_events_as_seen([]) has returned the error and the document is still absent.
C5_Witness ==
    /\ op.name = "mark_seen" /\ op.event_ids = IdList(<<>>)
    /\ result.kind = "error"
    /\ ~stateFile.exists

\* C9 as claimed: get_unseen_events on an Event Store that is absent or holds
\* no events returns the "nothing received yet" message, for either flag, and
\* leaves the state document alone.
C9_EmptyStoreShortCircuits ==
    [][ ( CallStep /\ op'.name = "unseen" /\ eventsFile.events = <<>> )
        => ( /\ result' = MessageResult
             /\ stateFile' = stateFile ) ]_vars

\* C9 amended: on an absent Event Store get_unseen_events returns the message;
\* on a present store holding no events it returns the ordinary result with
\* unseen_count 0 and no events; in both cases, for either flag, it leaves the
\* state document alone.
C9_AbsentStoreShortCircuits ==
    [][ ( CallStep /\ op'.name = "unseen" /\ eventsFile.events = <<>> )
        => ( /\ result' = IF eventsFile.exists
                          THEN UnseenResult(<<>>, op'.mark_as_seen)
                          ELSE MessageResult
             /\ stateFile' = stateFile ) ]_vars

\* get_unseen_events(True) has returned unseen_count 0 over a present, empty store.
C9_Witness ==
    /\ op.name = "unseen" /\ op.mark_as_seen
    /\ eventsFile = EventsDoc(<<>>)
    /\ result.kind = "unseen" /\ result.unseen_count = 0
    /\ ~stateFile.exists

\* C12: mark_events_as_seen with a non-empty list stores the previously stored
\* seen set (empty when the document was absent) united with the given
\* identities, whether or not they belong to a stored event, and reports the
\* size of that union as total_seen_events.
C12_MarkStoresUnion ==
    [][ ( /\ CallStep /\ op'.name = "mark_seen"
          /\ op'.event_ids.given /\ op'.event_ids.ids # <<>> )
        => LET union == LoadSeen(stateFile) \cup Range(op'.event_ids.ids)
           IN  /\ stateFile'.exists
               /\ stateFile'.seen_event_ids = union
               /\ result'.kind = "marked"
               /\ result'.total_seen_events = Cardinality(union)
               /\ result'.event_ids_marked = op'.event_ids.ids ]_vars

\* mark_events_as_seen was given twice the identity of no event: the stored set
\* holds it once beside an identity stored before, and two are reported.
C12_Witness ==
    /\ op.name = "mark_seen"
    /\ op.event_ids = IdList(<<"no-such-event", "no-such-event">>)
    /\ result.kind = "marked" /\ result.marked_as_seen = 2
    /\ result.total_seen_events = 2
    /\ Cardinality(stateFile.seen_event_ids) = 2
    /\ \A i \in DOMAIN eventsFile.events :
          EventId(eventsFile.events[i]) # "no-such-event"

\* C14: get_unseen_events(mark_as_seen=True) writes the state document only
\* when it found an unseen event.  Finding none (or no Event Store) it leaves
\* the document exactly as it was: last_processed keeps its value and an
\* absent document stays absent.  When it writes, the stored seen set is the
\* set stored before united with the identities of all the events it returns,
\* and last_processed is the time of the call.
C14_UnseenWritesOnlyWhenUnseen ==
    [][ ( CallStep /\ op'.name = "unseen" /\ op'.mark_as_seen )
        => IF result'.kind = "unseen" /\ result'.unseen_count > 0
           THEN /\ stateFile'.exists
                /\ stateFile'.seen_event_ids =
                       LoadSeen(stateFile) \cup NewSeenIds(result'.events)
                /\ stateFile'.last_processed = IsoFormat(now)
           ELSE stateFile' = stateFile ]_vars

\* get_unseen_events(True) found nothing unseen in a non-empty store and the
\* document, last written by mark_events_as_seen at an earlier hour, is as
\* mark_events_as_seen left it.
C14_Witness ==
    /\ op.name = "unseen" /\ op.mark_as_seen
    /\ result.kind = "unseen" /\ result.unseen_count = 0
    /\ eventsFile.exists /\ eventsFile.events # <<>>
    /\ stateFile.exists /\ stateFile.manually_marked_count # <<>>
    /\ stateFile.last_processed # IsoFormat(now)

\* C16: over appends and calls made one at a time, an identity once stored as
\* seen is never returned by get_unseen_events again.  Stated step by step:
\* no step removes an identity from the stored set, and a get_unseen_events
\* call returns no event whose identity was stored when the call began,
\* whenever that event was appended.
C16_SeenIdentityNeverReturned ==
    [][ /\ LoadSeen(stateFile) \subseteq LoadSeen(stateFile')
        /\ ( CallStep /\ op'.name = "unseen" /\ result'.kind = "unseen" )
           => \A i \in DOMAIN result'.events :
                 result'.events[i].event_id \notin LoadSeen(stateFile) ]_vars

\* The identity was stored by mark_events_as_seen; the Event Store holds two
\* different events carrying it, and get_unseen_events returned neither.
C16_Witness ==
    /\ op.name = "unseen"
    /\ result.kind = "unseen" /\ result.unseen_count = 0
    /\ Len(eventsFile.events) = 2
    /\ eventsFile.events[1] # eventsFile.events[2]
    /\ EventId(eventsFile.events[1]) = EventId(eventsFile.events[2])
    /\ stateFile.exists /\ stateFile.manually_marked_count # <<>>
    /\ stateFile.seen_event_ids = { EventId(eventsFile.events[1]) }

-----------------------------------------------------------------------------
(* The read-only query tools over a stored event list.  None of them writes     *)
(* anything, so a call's result depends only on the store, the clock and the   *)
(* arguments: the store and the clock are drawn at the start and one query is  *)
(* applied to them.                                                            *)

Fresh == op.name = "init"

Limits == (0 - 1)..MaxLimit
Conclusions == { Null, "", "success", "failure" }
SinceHours == 0..MaxSince

InitQuery ==
    /\ eventsFile \in { NoEventsFile }
                       \cup { EventsDoc(events) : events \in SeqsUpTo(QueryPool, MaxQueryEvents) }
    /\ stateFile = NoStateFile
    /\ now \in Hours
    /\ op = [name |-> "init"]
    /\ result = NoResult
    /\ calls = 0
    /\ pc = Idle
    /\ loc = [p \in Procs |-> NoLocals]
    /\ teamConfig = NoTeamConfig

GetRecentActionsEvents(limit) ==
    /\ Fresh
    /\ result' = RecentReturn(eventsFile, limit)
    /\ op' = [name |-> "recent", limit |-> limit]
    /\ calls' = 1 - calls
    /\ UNCHANGED <<eventsFile, stateFile, now, pc, loc, teamConfig>>

GetWorkflowStatus(conclusion) ==
    /\ Fresh
    /\ result' = StatusReturn(eventsFile, now, conclusion)
    /\ op' = [name |-> "status", conclusion |-> conclusion]
    /\ calls' = 1 - calls
    /\ UNCHANGED <<eventsFile, stateFile, now, pc, loc, teamConfig>>

GetNewFailures(since_hours) ==
    /\ Fresh
    /\ result' = FailuresReturn(eventsFile, now, since_hours)
    /\ op' = [name |-> "new_failures", since_hours |-> since_hours]
    /\ calls' = 1 - calls
    /\ UNCHANGED <<eventsFile, stateFile, now, pc, loc, teamConfig>>

NextQuery ==
    \/ \E limit \in Limits : GetRecentActionsEvents(limit)
    \/ \E conclusion \in Conclusions : GetWorkflowStatus(conclusion)
    \/ \E since_hours \in SinceHours : GetNewFailures(since_hours)

SpecQuery == InitQuery /\ [][NextQuery]_vars

-----------------------------------------------------------------------------
(* Properties of the query tools, checked under SpecQuery *)

StoredEvents == eventsFile.events

\* Every run listed in some workflow of a status result.
ListedRuns(status) ==
    UNION { UNION { Range(status.repositories[i].workflows[k].runs)
                    : k \in DOMAIN status.repositories[i].workflows }
            : i \in DOMAIN status.repositories }

\* The latest_run of every repository of a status result.
LatestRuns(status) ==
    UNION { Range(status.repositories[i].latest_run) : i \in DOMAIN status.repositories }

\* C6: for a non-empty event list and a positive limit, get_recent_actions_events
\* returns exactly min(limit, len(events)) records, the last ones of the list in
\* their stored order; on an absent or empty store it returns the empty list,
\* whatever the limit.
C6_RecentIsTail ==
    op.name = "recent" =>
        /\ result.kind = "list"
        /\ (StoredEvents # <<>> /\ op.limit > 0) =>
              LET n == Len(StoredEvents)
                  m == Min(op.limit, n)
              IN  /\ Len(result.items) = m
                  /\ \A i \in 1..m : result.items[i] = StoredEvents[n - m + i]
        /\ StoredEvents = <<>> => result.items = <<>>

\* recent(2) over three stored events returned the last two.
C6_Witness ==
    /\ op.name = "recent" /\ op.limit = 2
    /\ Len(StoredEvents) = 3
    /\ StoredEvents[1] # StoredEvents[2] /\ StoredEvents[2] # StoredEvents[3]
    /\ result.items = <<StoredEvents[2], StoredEvents[3]>>

UnparsableFailure(e) == IsFailure(e) /\ ~ParseIso(e.timestamp).ok

RECURSIVE WithoutUnparsable(_)
WithoutUnparsable(events) ==
    IF events = <<>> THEN <<>>
    ELSE IF UnparsableFailure(Head(events))
         THEN WithoutUnparsable(Tail(events))
         ELSE <<Head(events)>> \o WithoutUnparsable(Tail(events))

\* C7 as claimed: when the store holds a failure event whose timestamp cannot
\* be parsed, get_new_failures still returns its normal result, and that result
\* is the one built from the other events.
C7_UnparsableTimestampIsSkipped ==
    ( /\ op.name = "new_failures"
      /\ \E i \in DOMAIN StoredEvents : UnparsableFailure(StoredEvents[i]) )
    => ( /\ result.kind = "failures"
         /\ result = FailuresReturn(EventsDoc(WithoutUnparsable(StoredEvents)),
                                     now, op.since_hours) )

BadUpdatedAt(updated_at) ==
    updated_at = Missing \/ updated_at = Null \/ ~ParseIso(updated_at).ok

\* C8 as claimed: get_workflow_status returns its summary for every non-empty
\* event list, and in it every run whose updated_at is absent, null or
\* unparsable carries the elapsed-time error marker.
C8_StatusSurvivesBadUpdatedAt ==
    ( op.name = "status" /\ StoredEvents # <<>> )
    => ( /\ result.kind = "status"
         /\ \A r \in ListedRuns(result) :
                BadUpdatedAt(r.updated_at) => DOMAIN r.time_since_run = {"error"} )

\* C10: when get_workflow_status applies a conclusion filter (its result echoes
\* one), every run in every workflow list and every latest_run has exactly that
\* conclusion, and every repository listed has a stored event with a
\* workflow_run of that conclusion.
C10_FilterKeepsOnlyMatching ==
    ( /\ op.name = "status" /\ result.kind = "status"
      /\ result.filter_applied # "none" )
    => ( /\ result.filter_applied = "conclusion=" \o op.conclusion
         /\ \A r \in ListedRuns(result) \cup LatestRuns(result) :
                r.conclusion = op.conclusion
         /\ \A i \in DOMAIN result.repositories :
                /\ result.repositories[i].latest_run # <<>>
                /\ \E k \in DOMAIN StoredEvents :
                      /\ HasRun(StoredEvents[k])
                      /\ StoredEvents[k].repository = result.repositories[i].repository
                      /\ RunOf(StoredEvents[k]).conclusion = op.conclusion )

\* status("failure") returned one repository although the store also holds a
\* successful run of the same repository and a push event.
C10_Witness ==
    /\ op.name = "status" /\ op.conclusion = "failure"
    /\ result.kind = "status" /\ result.total_repositories = 1
    /\ \E k \in DOMAIN StoredEvents :
          /\ HasRun(StoredEvents[k]) /\ RunOf(StoredEvents[k]).conclusion = "success"
          /\ StoredEvents[k].repository = result.repositories[1].repository
    /\ \E k \in DOMAIN StoredEvents : ~HasRun(StoredEvents[k])

\* The stored events get_new_failures selects: failures inside the window.
SelectedFailure(e) ==
    IsFailure(e) /\ WindowTest(e.timestamp, now - op.since_hours) = "in"

\* Where in the store the first selected failure of a group is.
FirstEncounter(g) ==
    CHOOSE k \in DOMAIN StoredEvents :
        /\ SelectedFailure(StoredEvents[k])
        /\ StoredEvents[k].repository = g.repository
        /\ RunOf(StoredEvents[k]).name = g.workflow_name
        /\ \A j \in 1..(k - 1) :
              ~( /\ SelectedFailure(StoredEvents[j])
                 /\ StoredEvents[j].repository = g.repository
                 /\ RunOf(StoredEvents[j]).name = g.workflow_name )

\* C11: get_new_failures returns its groups by failure_count in descending
\* order, and of two groups with equal counts the one whose first failure comes
\* earlier in the Event Store comes first.
C11_GroupsSortedByCount ==
    ( op.name = "new_failures" /\ result.kind = "failures" )
    => LET groups == result.failure_groups
       IN  \A i, j \in DOMAIN groups :
              i < j =>
                /\ groups[i].failure_count >= groups[j].failure_count
                /\ groups[i].failure_count = groups[j].failure_count
                     => FirstEncounter(groups[i]) < FirstEncounter(groups[j])

\* The group met second has two failures and is returned before the group met
\* first, which has one.
C11_Witness ==
    /\ op.name = "new_failures" /\ result.kind = "failures"
    /\ Len(result.failure_groups) = 2
    /\ result.failure_groups[1].failure_count = 2
    /\ result.failure_groups[2].failure_count = 1
    /\ FirstEncounter(result.failure_groups[2]) = 1

RECURSIVE SumOfCounts(_)
SumOfCounts(groups) ==
    IF groups = <<>> THEN 0
    ELSE Head(groups).failure_count + SumOfCounts(Tail(groups))

\* The positions in the store of the selected failures of one repository and
\* workflow name.
SelectedOf(repository, workflow_name) ==
    { k \in DOMAIN StoredEvents :
        /\ SelectedFailure(StoredEvents[k])
        /\ StoredEvents[k].repository = repository
        /\ RunOf(StoredEvents[k]).name = workflow_name }

\* C17: in a get_new_failures result the groups partition the selected
\* failures.  Each group's failure_count is the number of occurrences it lists
\* and the number of selected failures of its repository and workflow name;
\* the counts add up to total_individual_failures, which is the number of
\* selected failures; total_failure_groups is the number of groups; and no two
\* groups have the same repository and workflow name.
C17_GroupsPartitionFailures ==
    ( op.name = "new_failures" /\ result.kind = "failures" )
    => LET groups == result.failure_groups
       IN  /\ \A i \in DOMAIN groups :
                  /\ groups[i].failure_count = Len(groups[i].failures)
                  /\ groups[i].failure_count =
                        Cardinality(SelectedOf(groups[i].repository, groups[i].workflow_name))
                  /\ groups[i].failure_count > 0
           /\ SumOfCounts(groups) = result.total_individual_failures
           /\ result.total_individual_failures =
                 Cardinality({ k \in DOMAIN StoredEvents : SelectedFailure(StoredEvents[k]) })
           /\ Len(groups) = result.total_failure_groups
           /\ \A i, j \in DOMAIN groups :
                  ( /\ groups[i].repository = groups[j].repository
                    /\ groups[i].workflow_name = groups[j].workflow_name ) => i = j

\* Three selected failures in two groups of the same repository, one listing
\* two occurrences and one listing one.
C17_Witness ==
    /\ op.name = "new_failures" /\ result.kind = "failures"
    /\ result.total_individual_failures = 3
    /\ result.total_failure_groups = 2
    /\ Len(result.failure_groups[1].failures) = 2
    /\ Len(result.failure_groups[2].failures) = 1
    /\ result.failure_groups[1].repository = result.failure_groups[2].repository
    /\ result.failure_groups[1].failures[1] # result.failure_groups[1].failures[2]

\* The events get_workflow_status groups, in stored order.
SelectedRuns == StatusSelected(StoredEvents, op.conclusion)

\* Where in SelectedRuns the runs of a repository are.
RunsOfRepo(repository) ==
    { k \in DOMAIN SelectedRuns : SelectedRuns[k].repository = repository }

UpdatedAt(k) == RunOf(SelectedRuns[k]).updated_at

\* The runs of a repository that no run of it exceeds in updated_at.
GreatestOfRepo(repository) ==
    { k \in RunsOfRepo(repository) :
        \A j \in RunsOfRepo(repository) : ~StrGreater(UpdatedAt(j), UpdatedAt(k)) }

\* The store with its events in another order.
Reordered(p) == EventsDoc([i \in DOMAIN StoredEvents |-> StoredEvents[p[i]]])

\* latest_run of every repository of a status result, by repository.
LatestByRepo(status) ==
    { <<status.repositories[i].repository, status.repositories[i].latest_run>> :
        i \in DOMAIN status.repositories }

\* C15 as stated: latest_run of every repository has the greatest updated_at
\* of the repository's selected runs, and the same store in any other order
\* gives every repository the same latest_run.
C15_LatestRunIsOrderIndependent ==
    ( op.name = "status" /\ result.kind = "status" )
    => /\ \A i \in DOMAIN result.repositories :
             \E k \in GreatestOfRepo(result.repositories[i].repository) :
                 result.repositories[i].latest_run = <<WorkflowInfo(RunOf(SelectedRuns[k]), now)>>
       /\ \A p \in Permutations(DOMAIN StoredEvents) :
             LET other == StatusReturn(Reordered(p), now, op.conclusion)
             IN  other.kind = "status" /\ LatestByRepo(other) = LatestByRepo(result)

\* C15, amended: latest_run of every repository is the first in stored order of
\* the repository's selected runs that no run of the repository exceeds in
\* updated_at (the comparison is strict, so of the runs sharing the greatest
\* updated_at the one stored first is kept).  The same store in any other order
\* yields a status result too, with the same latest_run for every repository
\* in which the runs sharing the greatest updated_at are all the same run.
C15_LatestRunIsFirstGreatest ==
    ( op.name = "status" /\ result.kind = "status" )
    => /\ \A i \in DOMAIN result.repositories :
             LET greatest == GreatestOfRepo(result.repositories[i].repository)
                 first == CHOOSE k \in greatest : \A j \in greatest : k <= j
             IN  /\ greatest # {}
                 /\ result.repositories[i].latest_run =
                       <<WorkflowInfo(RunOf(SelectedRuns[first]), now)>>
       /\ \A p \in Permutations(DOMAIN StoredEvents) :
             LET other == StatusReturn(Reordered(p), now, op.conclusion)
             IN  /\ other.kind = "status"
                 /\ \A i \in DOMAIN result.repositories :
                       LET r == result.repositories[i]
                           greatest == GreatestOfRepo(r.repository)
                       IN  Cardinality({ RunOf(SelectedRuns[k]) : k \in greatest }) = 1
                           => <<r.repository, r.latest_run>> \in LatestByRepo(other)

\* Two different runs of one repository share the greatest updated_at; the one
\* stored first is the latest_run, and the store in reverse order reports the
\* other one.
C15_Witness ==
    /\ op.name = "status" /\ result.kind = "status"
    /\ Len(StoredEvents) = 2
    /\ Len(result.repositories) = 1
    /\ result.repositories[1].total_runs = 2
    /\ RunOf(StoredEvents[1]).updated_at = RunOf(StoredEvents[2]).updated_at
    /\ RunOf(StoredEvents[1]).run_number # RunOf(StoredEvents[2]).run_number
    /\ result.repositories[1].latest_run[1].run_number = RunOf(StoredEvents[1]).run_number
    /\ LET other == StatusReturn(EventsDoc(<<StoredEvents[2], StoredEvents[1]>>),
                                 now, op.conclusion)
       IN  /\ other.kind = "status"
           /\ other.repositories[1].latest_run[1].run_number
                 = RunOf(StoredEvents[2]).run_number

-----------------------------------------------------------------------------
(* The notification router over a team configuration document.  The tool   *)
(* writes nothing; the document is drawn at the start: the file is absent, *)
(* or it holds any subset of the three top-level keys.                      *)

Repositories == { "a/b", "x/y" }
FailureTypes == { "general", "frontend", "backend", "deployment", "security", "database" }

RepositoryMaps == { EmptyMap, "a/b" :> <<"alice", "bob">> }
ExpertiseMaps ==
    { EmptyMap,
      "frontend" :> <<"fe-dev">>,
      ("backend" :> <<"be-dev", "be-lead">>) @@ ("database" :> <<"dba">>) }
OnCallMaps ==
    { EmptyMap,
      "primary" :> "pat",
      ("primary" :> "") @@ ("secondary" :> "sam") }

\* A chosen value or none: <<>> or <<value>>.
Optional(values) == { <<>> } \cup { <<v>> : v \in values }
KeyOf(key, opt) == IF opt = <<>> THEN EmptyMap ELSE key :> opt[1]

TeamConfigDocs ==
    { KeyOf("repositories", r) @@ KeyOf("expertise", e) @@ KeyOf("on_call", o) :
        r \in Optional(RepositoryMaps), e \in Optional(ExpertiseMaps),
        o \in Optional(OnCallMaps) }

InitRouter ==
    /\ eventsFile = NoEventsFile
    /\ stateFile = NoStateFile
    /\ now = 0
    /\ op = [name |-> "init"]
    /\ result = NoResult
    /\ calls = 0
    /\ pc = Idle
    /\ loc = [p \in Procs |-> NoLocals]
    /\ teamConfig \in { NoTeamConfig } \cup { TeamConfigDoc(doc) : doc \in TeamConfigDocs }

SuggestTeamNotification(repository, workflow_name, failure_type) ==
    /\ op' = [name |-> "suggest", repository |-> repository,
              workflow_name |-> workflow_name, failure_type |-> failure_type]
    /\ result' = SuggestReturn(teamConfig, repository, workflow_name, failure_type)
    /\ calls' = 1 - calls
    /\ UNCHANGED <<eventsFile, stateFile, now, pc, loc, teamConfig>>

NextRouter ==
    \E repository \in Repositories, workflow_name \in WorkflowNames,
       failure_type \in FailureTypes :
        SuggestTeamNotification(repository, workflow_name, failure_type)

SpecRouter == InitRouter /\ [][NextRouter]_vars

-----------------------------------------------------------------------------
(* Properties of the notification router, checked under SpecRouter *)

\* The people suggested with the given suggestion type, in order.
Suggested(type) ==
    LET OfType(s) == s.type = type
        chosen == SelectSeq(result.notification_suggestions, OfType)
    IN  [i \in DOMAIN chosen |-> chosen[i].person]

\* C13: the team document replaces the defaults one top-level key at a time.
\* When the document has a key, the suggestions of that kind come from the
\* document's value alone: a failure type the document's expertise map lacks
\* gets no expert even if the defaults name one, and an on-call role it
\* lacks is not filled from the defaults.  When the document lacks a key,
\* the default value of that key is used.
C13_TeamConfigReplacesTopLevelKeys ==
    op.name = "suggest" =>
        LET doc == LoadTeamConfig(teamConfig)
            expertise == IF "expertise" \in DOMAIN doc THEN doc["expertise"]
                         ELSE DefaultExpertise
            on_call == IF "on_call" \in DOMAIN doc THEN doc["on_call"]
                       ELSE DefaultConfig.on_call
            repositories == IF "repositories" \in DOMAIN doc THEN doc["repositories"]
                            ELSE EmptyMap
        IN  /\ Suggested("expertise") =
                   IF op.failure_type \in DOMAIN expertise
                   THEN expertise[op.failure_type] ELSE <<>>
            /\ Suggested("on_call_primary") =
                   IF "primary" \in DOMAIN on_call /\ on_call["primary"] # ""
                   THEN <<on_call["primary"]>> ELSE <<>>
            /\ Suggested("on_call_secondary") =
                   IF "secondary" \in DOMAIN on_call /\ on_call["secondary"] # ""
                   THEN <<on_call["secondary"]>> ELSE <<>>
            /\ Suggested("repository_owner") =
                   IF op.repository \in DOMAIN repositories
                   THEN repositories[op.repository] ELSE <<>>

\* The document has an expertise map without "backend" and no on_call key; a
\* backend failure gets no expert, and the default on-call people.
C13_Witness ==
    /\ op.name = "suggest"
    /\ op.failure_type = "backend"
    /\ teamConfig.exists
    /\ DOMAIN teamConfig.doc = { "expertise" }
    /\ DOMAIN teamConfig.doc["expertise"] = { "frontend" }
    /\ Suggested("expertise") = <<>>
    /\ Suggested("on_call_primary") = <<"on-call-primary">>
    /\ Suggested("on_call_secondary") = <<"on-call-secondary">>

-----------------------------------------------------------------------------
(* Two server processes sharing the two files.  A call is split at its file  *)
(* accesses: get_unseen_events loads EVENTS_FILE, then loads the state       *)
(* document, then (when it marks) dumps it; mark_events_as_seen loads the    *)
(* state document, then dumps it.  Each process makes one call.  The tools    *)
(* contain no await, so calls of one process never interleave: the processes *)
(* are separate servers started over the same directory.  A dump is taken as *)
(* one step (the window in which the truncated file is unreadable is left    *)
(* out).                                                                     *)

\* The lists the two concurrent callers hand to mark_events_as_seen.
ConcIdLists == { NoList } \cup { IdList(<<id>>) : id \in MarkPool }

\* How many dumps of the state document have completed.
Writes == Cardinality({ p \in Procs : loc[p].wrote_at > 0 })

CanStart(p) == pc[p] = "idle" /\ loc[p].call = "none"

Finish(p, name, res) ==
    /\ op' = [name |-> name, proc |-> p]
    /\ result' = res
    /\ calls' = 1 - calls

\* get_unseen_events up to the load of EVENTS_FILE.
UnseenLoadEvents(p, mark_as_seen) ==
    /\ CanStart(p)
    /\ loc' = [loc EXCEPT ![p].call = "unseen", ![p].mark_as_seen = mark_as_seen,
                          ![p].events = eventsFile.events]
    /\ IF UnseenShortCircuits(eventsFile)
       THEN pc' = [pc EXCEPT ![p] = "done"] /\ Finish(p, "unseen", MessageResult)
       ELSE pc' = [pc EXCEPT ![p] = "unseen_loaded"] /\ UNCHANGED <<op, result, calls>>
    /\ UNCHANGED <<eventsFile, stateFile, now, teamConfig>>

\* ... the load of the state document and the loop; returns unless it marks.
UnseenLoadState(p) ==
    /\ pc[p] = "unseen_loaded"
    /\ LET seen_events == LoadSeen(stateFile)
           unseen_events == UnseenEvents(loc[p].events, seen_events)
       IN  /\ loc' = [loc EXCEPT ![p].seen_events = seen_events, ![p].read_at = Writes]
           /\ IF UnseenShouldWrite(loc[p].mark_as_seen, unseen_events)
              THEN pc' = [pc EXCEPT ![p] = "unseen_dump"] /\ UNCHANGED <<op, result, calls>>
              ELSE /\ pc' = [pc EXCEPT ![p] = "done"]
                   /\ Finish(p, "unseen", UnseenResult(unseen_events, loc[p].mark_as_seen))
    /\ UNCHANGED <<eventsFile, stateFile, now, teamConfig>>

\* ... the dump of the state document, and the return.
UnseenDump(p) ==
    /\ pc[p] = "unseen_dump"
    /\ LET unseen_events == UnseenEvents(loc[p].events, loc[p].seen_events)
       IN  /\ stateFile' = Overwrite(stateFile,
                               UnseenStateDoc(UnseenMerged(loc[p].seen_events, unseen_events), now))
           /\ loc' = [loc EXCEPT ![p].wrote_at = Writes + 1,
                                 ![p].added = NewSeenIds(unseen_events)]
           /\ Finish(p, "unseen", UnseenResult(unseen_events, TRUE))
    /\ pc' = [pc EXCEPT ![p] = "done"]
    /\ UNCHANGED <<eventsFile, now, teamConfig>>

\* mark_events_as_seen up to the load of the state document.
MarkLoadState(p, event_ids) ==
    /\ CanStart(p)
    /\ loc' = [loc EXCEPT ![p].call = "mark_seen", ![p].event_ids = event_ids.ids,
                          ![p].seen_events = LoadSeen(stateFile), ![p].read_at = Writes]
    /\ IF MarkRejects(event_ids)
       THEN pc' = [pc EXCEPT ![p] = "done"] /\ Finish(p, "mark_seen", ErrorResult)
       ELSE pc' = [pc EXCEPT ![p] = "mark_dump"] /\ UNCHANGED <<op, result, calls>>
    /\ UNCHANGED <<eventsFile, stateFile, now, teamConfig>>

\* ... the dump of the state document, and the return.
MarkDump(p) ==
    /\ pc[p] = "mark_dump"
    /\ LET merged == MarkMerged(loc[p].seen_events, loc[p].event_ids)
       IN  /\ stateFile' = Overwrite(stateFile, MarkStateDoc(merged, now, loc[p].event_ids))
           /\ loc' = [loc EXCEPT ![p].wrote_at = Writes + 1,
                                 ![p].added = Range(loc[p].event_ids)]
           /\ Finish(p, "mark_seen",
                     [kind |-> "marked", marked_as_seen |-> Len(loc[p].event_ids),
                      total_seen_events |-> Cardinality(merged),
                      event_ids_marked |-> loc[p].event_ids])
    /\ pc' = [pc EXCEPT ![p] = "done"]
    /\ UNCHANGED <<eventsFile, now, teamConfig>>

NextConc ==
    \/ \E e \in SeenPool : AppendEvent(e)
    \/ Tick
    \/ \E p \in Procs : \E mark_as_seen \in BOOLEAN : UnseenLoadEvents(p, mark_as_seen)
    \/ \E p \in Procs : UnseenLoadState(p)
    \/ \E p \in Procs : UnseenDump(p)
    \/ \E p \in Procs : \E event_ids \in ConcIdLists : MarkLoadState(p, event_ids)
    \/ \E p \in Procs : MarkDump(p)

SpecConc == Init /\ [][NextConc]_vars

-----------------------------------------------------------------------------
(* Properties of concurrent calls, checked under SpecConc *)

AllDone == \A p \in Procs : pc[p] = "done"

\* One process ran get_unseen_events(True), the other mark_events_as_seen, and
\* both dumped the state document.
UnseenAndMarkWrote ==
    /\ { loc[p].call : p \in Procs } = { "unseen", "mark_seen" }
    /\ \A p \in Procs : loc[p].wrote_at > 0

\* Both loaded the state document before either dumped it.
BothReadFirst == \A p \in Procs : loc[p].read_at = 0

FirstWriter == CHOOSE p \in Procs : loc[p].wrote_at = 1
LastWriter == CHOOSE p \in Procs : loc[p].wrote_at = 2

\* The identities of the first writer that the last writer neither loaded nor added.
Clobbered ==
    loc[FirstWriter].added \ (loc[LastWriter].seen_events \cup loc[LastWriter].added)

\* C3: when get_unseen_events(True) and mark_events_as_seen run concurrently and
\* both load the state document before either dumps it, the last dump wins: the
\* stored seen set is what the last writer loaded plus what it added, and every
\* identity only the first writer added is missing from it.  When the last
\* writer loaded the document after the first dump, nothing is lost.
C3_LastWriterWins ==
    ( AllDone /\ UnseenAndMarkWrote )
    => IF BothReadFirst
       THEN /\ LoadSeen(stateFile) = loc[LastWriter].seen_events \cup loc[LastWriter].added
            /\ \A id \in Clobbered : id \notin LoadSeen(stateFile)
       ELSE \A p \in Procs : loc[p].added \subseteq LoadSeen(stateFile)

\* Both calls have finished after a race and an identity the first writer added
\* is not in the stored seen set.
C3_Witness ==
    /\ AllDone /\ UnseenAndMarkWrote /\ BothReadFirst
    /\ Clobbered # {}
    /\ \E id \in loc[FirstWriter].added : id \notin LoadSeen(stateFile)

====
